---- MODULE Spec2Model ----
(***************************************************************************)
(* A model of the LWE bit-encryption scheme of src/project/src/encryption  *)
(* (lwe.ts, utils.ts, types).  The functions are pure apart from the       *)
(* process-wide Math.random stream, so every function is an operator that  *)
(* takes the outcomes of its random draws as extra arguments, and the      *)
(* specifications enumerate callers: Spec is a caller that runs            *)
(* keygen -> encrypt -> decrypt, SpecUtil is a caller of the utilities.    *)
(***************************************************************************)
EXTENDS Integers, Sequences, FiniteSets, TLC

VARIABLES
    pc,          \* position of the caller
    n, q,        \* the parameters handed to keygen
    secret,      \* SecretKey    {vector, n, q}
    publicKey,   \* PublicKey    {elements, n, q}
    err,         \* message of the Error the last call threw, or NoError
    noise,       \* keygen's local `error` of every loop iteration
    message,     \* the bit handed to encrypt
    picked,      \* indices of publicKey.elements that encrypt's subset holds
    ciphertext,  \* Ciphertext   {vector, scalar}
    origin,      \* where the ciphertext came from
    decrypted,   \* the value decrypt returned
    op, args, ret, \* SpecUtil: the utility called, its arguments, its outcome
    nInput,      \* SpecPage: the text of the n input
    toast,       \* SpecPage: the last toast shown
    qFrom        \* SpecPage: the n that handleGenerateQ derived q from

vars == <<pc, n, q, secret, publicKey, err, noise, message, picked,
          origin, ciphertext, decrypted, op, args, ret, nInput, toast, qFrom>>

lweVars == <<pc, n, q, secret, publicKey, err, noise, message, picked,
             origin, ciphertext, decrypted>>

utilVars == <<op, args, ret>>

pageVars == <<nInput, toast, qFrom>>

----------------------------------------------------------------------------
(* Bounds of the model.                                                    *)

MaxN == 3
MaxQ == 13
MaxSeed == 2
MaxNoise == 4
MaxHeads == 2

----------------------------------------------------------------------------
(* Outcomes of a call: a returned value or a thrown Error.                 *)

NoError == "none"

Ok(v) == [ok |-> TRUE, val |-> v, err |-> NoError]

Throw(msg) == [ok |-> FALSE, val |-> 0, err |-> msg]

ErrDimension == "n must be greater than 1"

ErrModulusSmall == "q must be greater than n^2"

ErrModulusNotPrime == "q must be a prime number"

ErrMessage == "Message must be 0 or 1"

ErrLength == "Vectors must have the same length"

ErrStdDev == "Standard deviation must be positive"

ErrUniformQ == "q must be a positive integer"

ErrUniformN == "n must be a positive integer"

ErrRange == "a must be less than or equal to b"

----------------------------------------------------------------------------
(* utils.ts                                                                *)

Abs(x) == IF x < 0 THEN -x ELSE x

Min(x, y) == IF x < y THEN x ELSE y

Max(x, y) == IF x > y THEN x ELSE y

\* The % of the host: the remainder takes the sign of the dividend.
JsRem(a, b) == IF a >= 0 THEN a % Abs(b) ELSE -((-a) % Abs(b))

\* Mutant of mod: q is added before the one remainder, (a + q) % q.
modSingleRemainder(a, qq) == JsRem(a + qq, qq)

\* Mutant of mod: the bare remainder of the host, negative for negative a.
modBareRemainder(a, qq) == JsRem(a, qq)

mod(a, qq) == JsRem(JsRem(a, qq) + qq, qq)

RECURSIVE dotLoop(_, _, _, _)
dotLoop(a, b, i, sum) ==
    IF i > Len(a) THEN sum ELSE dotLoop(a, b, i + 1, sum + a[i] * b[i])

\* Mutant of dotProduct: no length check, the products of the common prefix.
dotProductUnchecked(a, b) ==
    Ok(dotLoop(SubSeq(a, 1, Min(Len(a), Len(b))),
               SubSeq(b, 1, Min(Len(a), Len(b))), 1, 0))

dotProduct(a, b) ==
    IF Len(a) # Len(b) THEN Throw(ErrLength) ELSE Ok(dotLoop(a, b, 1, 0))

\* Mutant of sumVectors: only a longer first vector is rejected.
sumVectorsOneSided(a, b) ==
    IF Len(a) > Len(b) THEN Throw(ErrLength)
    ELSE Ok([i \in 1..Len(a) |-> a[i] + b[i]])

sumVectors(a, b) ==
    IF Len(a) # Len(b) THEN Throw(ErrLength)
    ELSE Ok([i \in 1..Len(a) |-> a[i] + b[i]])

modVector(a, qq) == Ok([i \in 1..Len(a) |-> mod(a[i], qq)])

\* Mutant of isPrimeLoop: the divisors stop below the square root.
RECURSIVE isPrimeLoopStrict(_, _)
isPrimeLoopStrict(k, i) ==
    IF i * i >= k THEN TRUE
    ELSE IF JsRem(k, i) = 0 THEN FALSE
    ELSE isPrimeLoopStrict(k, i + 2)

RECURSIVE isPrimeLoop(_, _)
isPrimeLoop(k, i) ==
    IF i * i > k THEN TRUE
    ELSE IF JsRem(k, i) = 0 THEN FALSE
    ELSE isPrimeLoop(k, i + 2)

isPrime(k) ==
    IF k < 2 THEN FALSE
    ELSE IF k = 2 THEN TRUE
    ELSE IF JsRem(k, 2) = 0 THEN FALSE
    ELSE isPrimeLoop(k, 3)

NotFound == -1

\* Mutant of findPrimeLoop: the upper bound is exclusive.
RECURSIVE findPrimeLoopExclusive(_, _)
findPrimeLoopExclusive(i, b) ==
    IF i >= b THEN NotFound
    ELSE IF isPrime(i) THEN i
    ELSE findPrimeLoopExclusive(i + 1, b)

RECURSIVE findPrimeLoop(_, _)
findPrimeLoop(i, b) ==
    IF i > b THEN NotFound
    ELSE IF isPrime(i) THEN i
    ELSE findPrimeLoop(i + 1, b)

findPrimeInRange(a, b) ==
    IF a > b THEN Throw(ErrRange) ELSE Ok(findPrimeLoop(Max(a, 2), b))

\* The `undefined` that indexing past the end of an array gives.
Undefined == "undefined"

At(set, i) == IF i \in 1..Len(set) THEN set[i] ELSE Undefined

RECURSIVE subsetLoop(_, _, _, _)
subsetLoop(set, flips, i, res) ==
    IF i > Len(set) THEN res
    ELSE subsetLoop(set, flips, i + 1,
                    IF flips[i] THEN Append(res, set[i]) ELSE res)

\* Mutant of chooseRandomSubset: no fallback when no flip came up.
chooseRandomSubsetNoFallback(set, flips, idx) ==
    subsetLoop(set, flips, 1, <<>>)

\* flips[i] is the outcome of `Math.random() < 0.5` of iteration i (0-based
\* i-1), idx the outcome of Math.floor(Math.random() * set.length).
chooseRandomSubset(set, flips, idx) ==
    LET res == subsetLoop(set, flips, 1, <<>>)
    IN  IF Len(res) = 0 THEN Append(res, At(set, idx + 1)) ELSE res

\* u is the outcome of Math.floor(Math.random() * q), a value of 0..q-1.
sampleUniform(qq, u) == IF qq <= 0 THEN Throw(ErrUniformQ) ELSE Ok(u)

\* us holds the outcomes of the nn calls of sampleUniform.
sampleUniformVector(qq, nn, us) ==
    IF nn <= 0 THEN Throw(ErrUniformN)
    ELSE IF qq <= 0 THEN Throw(ErrUniformQ)
    ELSE Ok([i \in 1..nn |-> sampleUniform(qq, us[i]).val])

\* z is the outcome of Math.round(z0 * s): the polar method's z0 is a
\* continuous variate, so every integer is an outcome when s >= 1.
sampleNormal(s, z) == IF s <= 0 THEN Throw(ErrStdDev) ELSE Ok(z)

----------------------------------------------------------------------------
(* lwe.ts                                                                  *)

\* Math.floor(Math.exp(k)) for the k the model needs; e^k is irrational for
\* k >= 1, so for integers e^k <= x is ExpFloor(k) < x.
ExpFloor(k) ==
    CASE k = 0 -> 1 [] k = 1 -> 2 [] k = 2 -> 7 [] k = 3 -> 20 [] k = 4 -> 54
      [] k = 5 -> 148 [] k = 6 -> 403 [] k = 7 -> 1096 [] k = 8 -> 2980
      [] k = 9 -> 8103 [] k = 10 -> 22026 [] k = 11 -> 59874
      [] k = 12 -> 162754 [] k = 13 -> 442413 [] k = 14 -> 1202604
      [] k = 15 -> 3269017 [] k = 16 -> 8886110 [] k = 17 -> 24154952
      [] k = 18 -> 65659969 [] k = 19 -> 178482300 [] k = 20 -> 485165195
      [] k = 21 -> 1318815734

RECURSIVE Pow(_, _)
Pow(b, e) == IF e = 0 THEN 1 ELSE b * Pow(b, e - 1)

\* Math.floor(n * Math.log(q)): the largest k with e^k <= q^n.
RECURSIVE lnFloorLoop(_, _)
lnFloorLoop(x, k) ==
    IF k < 21 /\ ExpFloor(k + 1) < x THEN lnFloorLoop(x, k + 1) ELSE k

sampleCount(nn, qq) == lnFloorLoop(Pow(qq, nn), 0)

\* Math.floor(1000000 * Math.sqrt(n) * Math.pow(Math.log(n), 2)), keygen's
\* `denom` in millionths.
denomMicro(nn) ==
    CASE nn = 2 -> 679463 [] nn = 3 -> 2090496 [] nn = 4 -> 3843624
      [] nn = 5 -> 5792065 [] nn = 6 -> 7863846 [] nn = 7 -> 10018312
      [] nn = 8 -> 12230337

\* Math.floor(alpha * q) with alpha = 1 / denom.
noiseScale(nn, qq) == (qq * 1000000) \div denomMicro(nn)

\* Mutant of keygenElement: the noise term is subtracted.
keygenElementMinus(nn, qq, sv, rnd, i) ==
    LET vector == sampleUniformVector(qq, nn,
                      [j \in 1..nn |-> rnd.uniform[i * nn + j]]).val
        error  == sampleNormal(noiseScale(nn, qq), rnd.normal[i])
        scalar == dotProduct(vector, sv).val - error.val
    IN  IF error.ok THEN Ok([vector |-> vector, scalar |-> mod(scalar, qq)])
        ELSE error

\* rnd.uniform is the stream of sampleUniform outcomes in call order,
\* rnd.normal[i] the sampleNormal outcome of loop iteration i.
keygenElement(nn, qq, sv, rnd, i) ==
    LET vector == sampleUniformVector(qq, nn,
                      [j \in 1..nn |-> rnd.uniform[i * nn + j]]).val
        error  == sampleNormal(noiseScale(nn, qq), rnd.normal[i])
        scalar == dotProduct(vector, sv).val + error.val
    IN  IF error.ok THEN Ok([vector |-> vector, scalar |-> mod(scalar, qq)])
        ELSE error

\* Mutant of keygen: the modulus check is q <= n * n, as its message says.
keygenStrictModulus(nn, qq, rnd) ==
    IF nn <= 1 THEN Throw(ErrDimension)
    ELSE IF qq <= nn * nn THEN Throw(ErrModulusSmall)
    ELSE IF ~isPrime(qq) THEN Throw(ErrModulusNotPrime)
    ELSE
      LET m  == sampleCount(nn, qq)
          sv == sampleUniformVector(qq, nn,
                    [j \in 1..nn |-> rnd.uniform[j]]).val
          el == [i \in 1..m |-> keygenElement(nn, qq, sv, rnd, i)]
      IN  Ok([secret    |-> [vector |-> sv, n |-> nn, q |-> qq],
              publicKey |-> [elements |-> [i \in 1..m |-> el[i].val],
                             n |-> nn, q |-> qq]])

keygen(nn, qq, rnd) ==
    IF nn <= 1 THEN Throw(ErrDimension)
    ELSE IF qq < nn * nn THEN Throw(ErrModulusSmall)
    ELSE IF ~isPrime(qq) THEN Throw(ErrModulusNotPrime)
    ELSE
      LET m  == sampleCount(nn, qq)
          sv == sampleUniformVector(qq, nn,
                    [j \in 1..nn |-> rnd.uniform[j]]).val
          el == [i \in 1..m |-> keygenElement(nn, qq, sv, rnd, i)]
      IN  IF \E i \in 1..m : ~el[i].ok
          THEN el[CHOOSE i \in 1..m : ~el[i].ok /\ \A k \in 1..(i-1) : el[k].ok]
          ELSE Ok([secret    |-> [vector |-> sv, n |-> nn, q |-> qq],
                   publicKey |-> [elements |-> [i \in 1..m |-> el[i].val],
                                  n |-> nn, q |-> qq]])

RECURSIVE encryptLoop(_, _, _, _)
encryptLoop(subset, i, res, qq) ==
    IF i > Len(subset) THEN Ok(res)
    ELSE LET v == sumVectors(res.vector, subset[i].vector)
         IN  IF ~v.ok THEN v
             ELSE encryptLoop(subset, i + 1,
                      [vector |-> v.val,
                       scalar |-> mod(res.scalar + subset[i].scalar, qq)], qq)

\* Mutant of encrypt: the loop starts at the first element of the subset
\* again, which is then counted twice.
encryptFromFirst(pk, msg, flips, idx) ==
    IF msg # 0 /\ msg # 1 THEN Throw(ErrMessage)
    ELSE
      LET subset == chooseRandomSubset(pk.elements, flips, idx)
          acc    == encryptLoop(subset, 1,
                        [vector |-> subset[1].vector,
                         scalar |-> subset[1].scalar], pk.q)
      IN  IF ~acc.ok THEN acc
          ELSE LET sc == IF msg = 1 THEN acc.val.scalar + (pk.q \div 2)
                         ELSE acc.val.scalar
               IN  Ok([vector |-> modVector(acc.val.vector, pk.q).val,
                       scalar |-> mod(sc, pk.q)])

encrypt(pk, msg, flips, idx) ==
    IF msg # 0 /\ msg # 1 THEN Throw(ErrMessage)
    ELSE
      LET subset == chooseRandomSubset(pk.elements, flips, idx)
          acc    == encryptLoop(subset, 2,
                        [vector |-> subset[1].vector,
                         scalar |-> subset[1].scalar], pk.q)
      IN  IF ~acc.ok THEN acc
          ELSE LET sc == IF msg = 1 THEN acc.val.scalar + (pk.q \div 2)
                         ELSE acc.val.scalar
               IN  Ok([vector |-> modVector(acc.val.vector, pk.q).val,
                       scalar |-> mod(sc, pk.q)])

\* Mutant of decrypt: a tie of the two distances gives 0.
decryptTiesToZero(sk, ct) ==
    LET dot == dotProduct(ct.vector, sk.vector)
    IN  IF ~dot.ok THEN dot
        ELSE LET res        == mod(ct.scalar - dot.val, sk.q)
                 half       == sk.q \div 2
                 distToZero == Min(res, sk.q - res)
                 distToHalf == Min(mod(res - half, sk.q), mod(half - res, sk.q))
             IN  Ok(IF distToZero <= distToHalf THEN 0 ELSE 1)

\* Mutant of decrypt: the dot product is added to the scalar.
decryptAddsDot(sk, ct) ==
    LET dot == dotProduct(ct.vector, sk.vector)
    IN  IF ~dot.ok THEN dot
        ELSE LET res        == mod(ct.scalar + dot.val, sk.q)
                 half       == sk.q \div 2
                 distToZero == Min(res, sk.q - res)
                 distToHalf == Min(mod(res - half, sk.q), mod(half - res, sk.q))
             IN  Ok(IF distToZero < distToHalf THEN 0 ELSE 1)

decrypt(sk, ct) ==
    LET dot == dotProduct(ct.vector, sk.vector)
    IN  IF ~dot.ok THEN dot
        ELSE LET res        == mod(ct.scalar - dot.val, sk.q)
                 half       == sk.q \div 2
                 distToZero == Min(res, sk.q - res)
                 distToHalf == Min(mod(res - half, sk.q), mod(half - res, sk.q))
             IN  Ok(IF distToZero < distToHalf THEN 0 ELSE 1)

----------------------------------------------------------------------------
(* The random outcomes the model enumerates.                               *)

\* The uniform stream of outcome `seed`: the k-th draw is seed * k mod q.
UniformStream(seed, len, qq) == [k \in 1..len |-> (seed * k) % qq]

\* The noise of outcome (a, shape): a at the odd iterations and, at the even
\* ones, a again (shape 0), -a (shape 1) or a - 1 (shape 2).
NormalStream(a, shape, m) ==
    [i \in 1..m |->
        IF i % 2 = 1 \/ shape = 0 THEN a
        ELSE IF shape = 1 THEN -a ELSE a - 1]

KeygenOutcomes(nn, qq) ==
    IF nn > 1 /\ qq >= nn * nn
    THEN LET m == sampleCount(nn, qq)
         IN  { [uniform |-> UniformStream(seed, nn * (m + 1), qq),
                normal  |-> NormalStream(a, shape, m)] :
                 seed \in 0..MaxSeed, a \in (-MaxNoise)..MaxNoise,
                 shape \in 0..2 }
    ELSE { [uniform |-> <<>>, normal |-> <<>>] }

\* The coin flips with at most MaxHeads heads, and the one with m heads.
HeadSets(m) ==
    { {f[j] : j \in 1..MaxHeads} \ {0} : f \in [1..MaxHeads -> 0..m] }
        \cup {1..m}

\* Ciphertexts that were not made by encrypt under this key.
ForeignCiphertexts(nn, qq) ==
    { [vector |-> [j \in 1..len |-> c], scalar |-> sc] :
        len \in (nn - 1)..(nn + 1), c \in 0..1, sc \in (-1)..qq }

\* The parameters a caller tries, and those of the end-to-end scenario.
ParamPairs ==
    ((-1)..MaxN) \X ((-1)..MaxQ) \cup {<<5, findPrimeInRange(5 * 5, 2 * 5 * 5).val>>}

----------------------------------------------------------------------------
(* Spec: a caller of keygen, encrypt and decrypt.                          *)

NoKey == [vector |-> <<>>, n |-> 0, q |-> 0]

NoPublicKey == [elements |-> <<>>, n |-> 0, q |-> 0]

NoCiphertext == [vector |-> <<>>, scalar |-> 0]

UtilIdle == op = "none" /\ args = <<>> /\ ret = Ok(0)

NoToast == "none"

PageIdle == nInput = <<>> /\ toast = NoToast /\ qFrom = 0

Init ==
    /\ pc = "params"
    /\ \E p \in ParamPairs : n = p[1] /\ q = p[2]
    /\ secret = NoKey
    /\ publicKey = NoPublicKey
    /\ err = NoError
    /\ noise = <<>>
    /\ message = 0
    /\ picked = <<>>
    /\ origin = "none"
    /\ ciphertext = NoCiphertext
    /\ decrypted = 0
    /\ UtilIdle
    /\ PageIdle

Keygen ==
    /\ pc = "params"
    /\ \E rnd \in KeygenOutcomes(n, q) :
         LET r == keygen(n, q, rnd)
         IN  IF r.ok
             THEN /\ pc' = "keyed"
                  /\ secret' = r.val.secret
                  /\ publicKey' = r.val.publicKey
                  /\ noise' = rnd.normal
                  /\ err' = NoError
             ELSE /\ pc' = "failed"
                  /\ err' = r.err
                  /\ UNCHANGED <<secret, publicKey, noise>>
    /\ UNCHANGED <<n, q, message, picked, origin, ciphertext, decrypted>>
    /\ UNCHANGED utilVars
    /\ UNCHANGED pageVars

Encrypt ==
    /\ pc = "keyed"
    /\ LET m == Len(publicKey.elements)
       IN  \E msg \in 0..2, heads \in HeadSets(m) :
             \E idx \in IF heads = {} THEN 0..(m - 1) ELSE {0} :
               LET flips == [i \in 1..m |-> i \in heads]
                   r     == encrypt(publicKey, msg, flips, idx)
               IN  /\ message' = msg
                   /\ IF r.ok
                      THEN /\ pc' = "encrypted"
                           /\ ciphertext' = r.val
                           /\ picked' = chooseRandomSubset(
                                  [i \in 1..m |-> i], flips, idx)
                           /\ origin' = "encrypt"
                           /\ err' = NoError
                      ELSE /\ pc' = "failed"
                           /\ err' = r.err
                           /\ UNCHANGED <<ciphertext, picked, origin>>
    /\ UNCHANGED <<n, q, secret, publicKey, noise, decrypted>>
    /\ UNCHANGED utilVars
    /\ UNCHANGED pageVars

\* The caller is handed a ciphertext from elsewhere (another key, corrupted).
Receive ==
    /\ pc = "keyed"
    /\ \E ct \in ForeignCiphertexts(secret.n, secret.q) : ciphertext' = ct
    /\ pc' = "encrypted"
    /\ origin' = "foreign"
    /\ UNCHANGED <<n, q, secret, publicKey, err, noise, message, picked,
                   decrypted>>
    /\ UNCHANGED utilVars
    /\ UNCHANGED pageVars

Decrypt ==
    /\ pc = "encrypted"
    /\ LET r == decrypt(secret, ciphertext)
       IN  IF r.ok
           THEN /\ pc' = "decrypted"
                /\ decrypted' = r.val
                /\ err' = NoError
           ELSE /\ pc' = "failed"
                /\ err' = r.err
                /\ UNCHANGED decrypted
    /\ UNCHANGED <<n, q, secret, publicKey, noise, message, picked, origin,
                   ciphertext>>
    /\ UNCHANGED utilVars
    /\ UNCHANGED pageVars

Next == Keygen \/ Encrypt \/ Receive \/ Decrypt

Spec == Init /\ [][Next]_vars

----------------------------------------------------------------------------
(* SpecUtil: a caller of the utilities of utils.ts, one call per run.      *)

MaxCoord == 2
MaxVecLen == 2
MaxModulus == 3
MaxK == 10000
MaxB == 50
MaxItems == 4

Vectors ==
    UNION { [1..len -> (-MaxCoord)..MaxCoord] : len \in 0..MaxVecLen }

Items == {"x", "y"}

ItemLists == UNION { [1..len -> Items] : len \in 0..MaxItems }

InitUtil ==
    /\ pc = "call"
    /\ n = 0 /\ q = 0
    /\ secret = NoKey
    /\ publicKey = NoPublicKey
    /\ err = NoError
    /\ noise = <<>>
    /\ message = 0
    /\ picked = <<>>
    /\ origin = "none"
    /\ ciphertext = NoCiphertext
    /\ decrypted = 0
    /\ UtilIdle
    /\ PageIdle

Return(name, a, r) ==
    /\ pc = "call"
    /\ pc' = "returned"
    /\ op' = name
    /\ args' = a
    /\ ret' = r
    /\ UNCHANGED <<n, q, secret, publicKey, err, noise, message, picked,
                   origin, ciphertext, decrypted>>
    /\ UNCHANGED pageVars

CallSumVectors ==
    /\ pc = "call"
    /\ \E a \in Vectors, b \in Vectors, qq \in 1..MaxModulus :
           Return("sumVectors", [a |-> a, b |-> b, q |-> qq], sumVectors(a, b))

CallDotProduct ==
    /\ pc = "call"
    /\ \E a \in Vectors, b \in Vectors, qq \in 1..MaxModulus :
           Return("dotProduct", [a |-> a, b |-> b, q |-> qq], dotProduct(a, b))

\* The caller holds the same inputs; modVector takes the vector a and the
\* modulus q.
CallModVector ==
    /\ pc = "call"
    /\ \E a \in Vectors, b \in Vectors, qq \in 1..MaxModulus :
           Return("modVector", [a |-> a, b |-> b, q |-> qq], modVector(a, qq))

CallMod ==
    /\ pc = "call"
    /\ \E a \in (-MaxB)..MaxB, qq \in 1..MaxB :
           Return("mod", [a |-> a, q |-> qq], Ok(mod(a, qq)))

CallIsPrime ==
    /\ pc = "call"
    /\ \E k \in (-MaxB)..MaxK :
           Return("isPrime", [k |-> k], Ok(isPrime(k)))

CallFindPrimeInRange ==
    /\ pc = "call"
    /\ \E a \in (-MaxCoord)..MaxB, b \in (-MaxCoord)..MaxB :
           Return("findPrimeInRange", [a |-> a, b |-> b], findPrimeInRange(a, b))

CallChooseRandomSubset ==
    /\ pc = "call"
    /\ \E set \in ItemLists :
         \E flips \in [1..Len(set) -> BOOLEAN], idx \in 0..Max(Len(set) - 1, 0) :
           Return("chooseRandomSubset",
                  [set |-> set, flips |-> flips, idx |-> idx],
                  Ok(chooseRandomSubset(set, flips, idx)))

NextUtil ==
    \/ CallSumVectors
    \/ CallDotProduct
    \/ CallModVector
    \/ CallMod
    \/ CallIsPrime
    \/ CallFindPrimeInRange
    \/ CallChooseRandomSubset

SpecUtil == InitUtil /\ [][NextUtil]_vars

----------------------------------------------------------------------------
(* SpecPage: the key-generation page (Home): the n input, Generate q and   *)
(* Generate Key.  The handlers are modelled as callable in every state;    *)
(* the page's show/hide flags are display only and left out.               *)

MaxPageN == 4

DigitChars == <<"0", "1", "2", "3", "4", "5", "6", "7", "8", "9">>

IsDigit(c) == \E d \in 1..10 : DigitChars[d] = c

DigitVal(c) == (CHOOSE d \in 1..10 : DigitChars[d] = c) - 1

NaN == [nan |-> TRUE, value |-> 0]

Num(v) == [nan |-> FALSE, value |-> v]

isNaN(x) == x.nan

RECURSIVE parseDigits(_, _, _)
\* The value of the digits that t holds from position i on, after acc.
parseDigits(t, i, acc) ==
    IF i > Len(t) \/ ~IsDigit(t[i]) THEN acc
    ELSE parseDigits(t, i + 1, 10 * acc + DigitVal(t[i]))

\* parseInt(t, 10): an optional sign, then the longest run of digits; NaN
\* when there is no digit there.
parseInt(t) ==
    LET neg   == Len(t) > 0 /\ t[1] = "-"
        first == IF neg THEN 2 ELSE 1
    IN  IF first > Len(t) \/ ~IsDigit(t[first]) THEN NaN
        ELSE IF neg THEN Num(-parseDigits(t, first, 0))
        ELSE Num(parseDigits(t, first, 0))

\* The texts typed into the n input: at most two characters of a sign, a
\* point and the digits up to MaxPageN, with a value of at most MaxPageN.
InputChars == {"-", "."} \cup {DigitChars[d + 1] : d \in 0..MaxPageN}

InputTexts ==
    { t \in UNION { [1..len -> InputChars] : len \in 0..2 } :
        isNaN(parseInt(t)) \/ parseInt(t).value <= MaxPageN }

ToastInvalidN == "Please enter a valid positive integer for n"

ToastNoPrime == "No prime found in range"

ToastPrimeOk == "Prime q generated successfully"

ToastNeedQ == "Please generate q first"

ToastKeysOk == "Keys generated successfully"

ToastKeyError == "Error generating key"

\* Mutant of primeRange: the range starts at n, not at n * n.
primeRangeFromN(nValue) == <<nValue, 2 * nValue * nValue>>

\* lowerBound and upperBound of handleGenerateQ.
primeRange(nValue) == <<nValue * nValue, 2 * nValue * nValue>>

\* The draws of one keygen call of the page: every uniform stream, and a
\* noise of 0 or 1 at every sample.
PageOutcomes(nn, qq) ==
    IF nn > 1 /\ qq >= nn * nn
    THEN LET m == sampleCount(nn, qq)
         IN  { [uniform |-> UniformStream(seed, nn * (m + 1), qq),
                normal  |-> NormalStream(a, 0, m)] :
                 seed \in 0..MaxSeed, a \in 0..1 }
    ELSE { [uniform |-> <<>>, normal |-> <<>>] }

InitPage ==
    /\ pc = "page"
    /\ n = 0
    /\ q = NotFound
    /\ secret = NoKey
    /\ publicKey = NoPublicKey
    /\ err = NoError
    /\ noise = <<>>
    /\ message = 0
    /\ picked = <<>>
    /\ origin = "none"
    /\ ciphertext = NoCiphertext
    /\ decrypted = 0
    /\ UtilIdle
    /\ PageIdle

\* onChange of the n input.
SetN ==
    /\ \E t \in InputTexts : t # nInput /\ nInput' = t
    /\ pc' = "setN"
    /\ UNCHANGED <<n, q, secret, publicKey, err, noise, message, picked,
                   origin, ciphertext, decrypted, toast, qFrom>>
    /\ UNCHANGED utilVars

handleGenerateQ ==
    /\ pc' = "handleGenerateQ"
    /\ LET nValue == parseInt(nInput)
       IN  IF isNaN(nValue) \/ nValue.value <= 0
           THEN /\ toast' = ToastInvalidN
                /\ UNCHANGED <<q, secret, publicKey, err, noise, ciphertext,
                               decrypted, qFrom>>
           ELSE LET range == primeRange(nValue.value)
                    prime == findPrimeInRange(range[1], range[2])
                IN  IF ~prime.ok
                    THEN /\ err' = prime.err
                         /\ UNCHANGED <<q, secret, publicKey, noise,
                                        ciphertext, decrypted, toast, qFrom>>
                    ELSE IF prime.val = NotFound
                    THEN /\ toast' = ToastNoPrime
                         /\ UNCHANGED <<q, secret, publicKey, err, noise,
                                        ciphertext, decrypted, qFrom>>
                    ELSE /\ q' = prime.val
                         /\ publicKey' = NoPublicKey
                         /\ secret' = NoKey
                         /\ noise' = <<>>
                         /\ decrypted' = 0
                         /\ ciphertext' = NoCiphertext
                         /\ toast' = ToastPrimeOk
                         /\ qFrom' = nValue.value
                         /\ UNCHANGED err
    /\ UNCHANGED <<n, message, picked, origin, nInput>>
    /\ UNCHANGED utilVars

handleGenerateKey ==
    /\ pc' = "handleGenerateKey"
    /\ LET nValue == parseInt(nInput)
       IN  IF q = NotFound
           THEN /\ toast' = ToastNeedQ
                /\ UNCHANGED <<n, secret, publicKey, err, noise, ciphertext,
                               decrypted>>
           ELSE IF isNaN(nValue) \/ nValue.value <= 0
           THEN /\ toast' = ToastInvalidN
                /\ UNCHANGED <<n, secret, publicKey, err, noise, ciphertext,
                               decrypted>>
           ELSE \E rnd \in PageOutcomes(nValue.value, q) :
                  LET r == keygen(nValue.value, q, rnd)
                  IN  /\ n' = nValue.value
                      /\ IF r.ok
                         THEN /\ secret' = r.val.secret
                              /\ publicKey' = r.val.publicKey
                              /\ noise' = rnd.normal
                              /\ decrypted' = 0
                              /\ ciphertext' = NoCiphertext
                              /\ toast' = ToastKeysOk
                              /\ err' = NoError
                         ELSE /\ toast' = ToastKeyError
                              /\ err' = r.err
                              /\ UNCHANGED <<secret, publicKey, noise,
                                             ciphertext, decrypted>>
    /\ UNCHANGED <<q, message, picked, origin, nInput, qFrom>>
    /\ UNCHANGED utilVars

NextPage == SetN \/ handleGenerateQ \/ handleGenerateKey

SpecPage == InitPage /\ [][NextPage]_vars

----------------------------------------------------------------------------
(* Reference definitions the properties are stated with.                   *)

RefPrime(k) == k >= 2 /\ \A d \in 2..(k - 1) : k % d # 0

RECURSIVE RefSum(_, _)
\* The sum of f[i] over the positions i of 1..len.
RefSum(f, len) == IF len = 0 THEN 0 ELSE f[len] + RefSum(f, len - 1)

\* The distance of x and y on the ring Z/mZ.
CircDist(x, y, m) == Min((x - y) % m, (y - x) % m)

KeysMade == secret # NoKey

ValidParams == n > 1 /\ q >= n * n /\ RefPrime(q)

DecryptCalled == origin # "none" /\ pc \in {"decrypted", "failed"}

\* ciphertext.scalar - <ciphertext.vector, secret.vector>, reduced mod q.
Noisy ==
    (ciphertext.scalar
       - RefSum([i \in 1..secret.n |-> ciphertext.vector[i] * secret.vector[i]],
                secret.n)) % secret.q

\* The integer sum of the noise terms of the elements encrypt picked.
NoiseSum == RefSum([k \in 1..Len(picked) |-> noise[picked[k]]], Len(picked))

\* The sum of the scalars of the picked elements, not reduced.
ScalarSum ==
    RefSum([k \in 1..Len(picked) |-> publicKey.elements[picked[k]].scalar],
           Len(picked))

CoordSum(j) ==
    RefSum([k \in 1..Len(picked) |-> publicKey.elements[picked[k]].vector[j]],
           Len(picked))

----------------------------------------------------------------------------
(* Properties of Spec.                                                     *)

\* C1 as stated: decrypt returns 1 exactly when noisy is strictly nearer to
\* floor(q/2) than to 0 on the ring, so a tie gives 0.
C1_TiesToZero ==
    pc = "decrypted" =>
        (decrypted = 1 <=>
            CircDist(Noisy, secret.q \div 2, secret.q)
                < CircDist(Noisy, 0, secret.q))

\* C1 amended: decrypt returns 0 exactly when noisy is strictly nearer to 0
\* than to floor(q/2) on the ring, and 1 otherwise, so a tie gives 1.
C1_TiesToOne ==
    pc = "decrypted" =>
        /\ decrypted \in {0, 1}
        /\ decrypted = 0 <=>
             CircDist(Noisy, 0, secret.q)
                 < CircDist(Noisy, secret.q \div 2, secret.q)

C1_Witness ==
    /\ pc = "decrypted"
    /\ CircDist(Noisy, 0, secret.q) = CircDist(Noisy, secret.q \div 2, secret.q)
    /\ decrypted = 1

EndToEnd ==
    /\ n = 5
    /\ q = findPrimeInRange(25, 50).val
    /\ q = 29
    /\ origin = "encrypt"
    /\ pc = "decrypted"

\* C2 as stated: with n = 5 and q = 29 every encrypted bit decrypts to
\* itself, whatever the key pair and the ciphertext.
C2_RoundTrip == EndToEnd => decrypted = message

\* C2 amended: with n = 5 and q = 29 an encrypted bit decrypts to itself
\* whenever the noise terms of the picked elements sum to E with
\* |E| < floor(q/4) = 7.
C2_RoundTripSmallNoise ==
    (EndToEnd /\ Abs(NoiseSum) < q \div 4) => decrypted = message

C2_Witness ==
    /\ EndToEnd
    /\ NoiseSum = 1 - (q \div 4)
    /\ Len(picked) > 1
    /\ message = 1
    /\ decrypted = 1

\* C3: after keygen(n, q) with n > 1 and q >= n^2 prime, the secret vector
\* has length n, the public key has floor(n * ln(q)) elements with vectors
\* of length n, every stored value is in [0, q), and both keys carry n, q.
C3_KeyShape ==
    (pc # "params" /\ ValidParams) =>
        LET m == Len(publicKey.elements)
        IN  /\ KeysMade
            /\ secret.n = n /\ secret.q = q
            /\ publicKey.n = n /\ publicKey.q = q
            /\ Len(secret.vector) = n
            /\ \A j \in 1..n : secret.vector[j] \in 0..(q - 1)
            /\ ExpFloor(m) < Pow(q, n) /\ Pow(q, n) <= ExpFloor(m + 1)
            /\ \A i \in 1..m :
                 /\ Len(publicKey.elements[i].vector) = n
                 /\ \A j \in 1..n :
                      publicKey.elements[i].vector[j] \in 0..(q - 1)
                 /\ publicKey.elements[i].scalar \in 0..(q - 1)

C3_Witness ==
    /\ pc = "keyed"
    /\ ValidParams
    /\ \E i \in 1..Len(noise) :
         /\ noise[i] < 0
         /\ RefSum([j \in 1..n |->
                publicKey.elements[i].vector[j] * secret.vector[j]], n)
              + noise[i] < 0

\* C4: keygen fails exactly when n <= 1, q < n^2 or q is not prime, with
\* the error of the first violated condition, the three errors differ, a
\* failure leaves no key material, and valid parameters give a key pair.
C4_ParameterErrors ==
    /\ Cardinality({ErrDimension, ErrModulusSmall, ErrModulusNotPrime,
                    NoError}) = 4
    /\ pc # "params" =>
         LET expected ==
               IF n <= 1 THEN ErrDimension
               ELSE IF q < n * n THEN ErrModulusSmall
               ELSE IF ~RefPrime(q) THEN ErrModulusNotPrime
               ELSE NoError
         IN  IF expected # NoError
             THEN /\ pc = "failed"
                  /\ err = expected
                  /\ secret = NoKey
                  /\ publicKey = NoPublicKey
             ELSE /\ KeysMade
                  /\ Len(publicKey.elements) > 0
                  /\ pc = "keyed" => err = NoError
                  /\ err \notin {ErrDimension, ErrModulusSmall,
                                 ErrModulusNotPrime}

C4_Witness ==
    /\ pc = "failed"
    /\ n > 1 /\ q < n * n /\ ~RefPrime(q)
    /\ err = ErrModulusSmall
    /\ ~KeysMade

\* C5: the ciphertext of encrypt has the element-wise sum of the picked
\* vectors mod q as its vector and (the unreduced sum of the picked
\* scalars + bit * floor(q/2)) mod q as its scalar; its values are in
\* [0, q) and its vector has length n.
C5_Ciphertext ==
    origin = "encrypt" =>
        /\ Len(picked) > 0
        /\ message \in {0, 1}
        /\ Len(ciphertext.vector) = n
        /\ \A j \in 1..n :
             /\ ciphertext.vector[j] = CoordSum(j) % q
             /\ ciphertext.vector[j] \in 0..(q - 1)
        /\ ciphertext.scalar = (ScalarSum + message * (q \div 2)) % q
        /\ ciphertext.scalar \in 0..(q - 1)

C5_Witness ==
    /\ origin = "encrypt"
    /\ pc = "encrypted"
    /\ message = 1
    /\ Len(picked) > 2
    /\ ScalarSum >= 2 * q
    /\ \E j \in 1..n : CoordSum(j) >= q

\* C6 as stated: decrypt never raises, it returns a bit for every
\* ciphertext.
C6_NeverRaises ==
    DecryptCalled => (pc = "decrypted" /\ decrypted \in {0, 1})

\* C6 amended: decrypt returns a bit and raises nothing for every
\* ciphertext whose vector has the length of the secret vector, whatever
\* its values; for a vector of another length it raises the length error
\* of dotProduct and returns nothing.
C6_RaisesOnlyOnLength ==
    DecryptCalled =>
        IF Len(ciphertext.vector) = Len(secret.vector)
        THEN pc = "decrypted" /\ decrypted \in {0, 1} /\ err = NoError
        ELSE pc = "failed" /\ err = ErrLength

C6_Witness ==
    /\ origin = "foreign"
    /\ pc = "decrypted"
    /\ ciphertext.scalar \notin 0..(secret.q - 1)
    /\ decrypted = 1

----------------------------------------------------------------------------
(* Properties of SpecUtil.                                                 *)

VectorOps == {"modVector", "sumVectors", "dotProduct"}

\* What each vector operation returns on inputs it accepts.
ElementWise ==
    /\ ret.ok
    /\ ret.err = NoError
    /\ op = "sumVectors" =>
         /\ Len(ret.val) = Len(args.a)
         /\ \A i \in 1..Len(args.a) : ret.val[i] = args.a[i] + args.b[i]
    /\ op = "dotProduct" =>
         ret.val = RefSum([i \in 1..Len(args.a) |-> args.a[i] * args.b[i]],
                          Len(args.a))
    /\ op = "modVector" =>
         /\ Len(ret.val) = Len(args.a)
         /\ \A i \in 1..Len(args.a) : ret.val[i] = args.a[i] % args.q

Rejected == ~ret.ok /\ ret.err = ErrLength

\* C7 as stated: each of modVector, sumVectors and dotProduct rejects
\* vectors of different lengths with the length error, and returns the
\* element-wise result on vectors of one length.
C7_AllThreeReject ==
    op \in VectorOps =>
        IF Len(args.a) # Len(args.b) THEN Rejected ELSE ElementWise

\* C7 amended: sumVectors and dotProduct reject vectors of different
\* lengths with the length error and return the element-wise result on
\* vectors of one length; modVector takes one vector and a modulus, raises
\* nothing and returns the element-wise reduction.
C7_SumAndDotReject ==
    /\ op \in {"sumVectors", "dotProduct"} =>
         IF Len(args.a) # Len(args.b) THEN Rejected ELSE ElementWise
    /\ op = "modVector" => ElementWise

C7_Witness ==
    /\ op = "dotProduct"
    /\ Len(args.a) > Len(args.b)
    /\ Len(args.b) > 0
    /\ Rejected

\* C8: for a <= b findPrimeInRange(a, b) returns the least prime of
\* max(a, 2)..b, or the not-found signal when there is none; for a > b it
\* fails with the range error.
C8_LeastPrimeInRange ==
    op = "findPrimeInRange" =>
        LET primes == {p \in Max(args.a, 2)..args.b : RefPrime(p)}
        IN  IF args.a > args.b
            THEN ~ret.ok /\ ret.err = ErrRange
            ELSE /\ ret.ok
                 /\ IF primes = {} THEN ret.val = NotFound
                    ELSE ret.val \in primes /\ \A p \in primes : ret.val <= p
                 /\ (args.a = 10 /\ args.b = 20) => ret.val = 11
                 /\ (args.a = 2 /\ args.b = 2) => ret.val = 2
                 /\ (args.a = 25 /\ args.b = 50) => ret.val = 29
                 /\ (args.a = 8 /\ args.b = 10) => ret.val = NotFound
                 /\ (args.a <= 0 /\ args.b >= 2) => ret.val = 2

C8_Witness ==
    /\ op = "findPrimeInRange"
    /\ args.a = 25 /\ args.b = 50
    /\ ret.ok /\ ret.val = 29

\* C9: isPrime(k) is true exactly when k >= 2 and no d with 1 < d < k
\* divides k.
C9_IsPrime ==
    op = "isPrime" =>
        /\ ret.val = RefPrime(args.k)
        /\ args.k < 2 => ret.val = FALSE
        /\ args.k = 2 => ret.val = TRUE

C9_Witness ==
    /\ op = "isPrime"
    /\ args.k = 97 * 97
    /\ ret.val = FALSE

\* C10: on a non-empty input chooseRandomSubset returns a non-empty
\* result: the items whose flip came up, in input order, each position
\* once, and when no flip came up the one item the index draw names.
C10_NonEmptySubset ==
    (op = "chooseRandomSubset" /\ Len(args.set) > 0) =>
        LET heads == {i \in 1..Len(args.set) : args.flips[i]}
            nth(k) == CHOOSE i \in heads :
                          Cardinality({h \in heads : h < i}) = k - 1
        IN  /\ Len(ret.val) > 0
            /\ IF heads # {}
               THEN /\ Len(ret.val) = Cardinality(heads)
                    /\ \A k \in 1..Len(ret.val) : ret.val[k] = args.set[nth(k)]
               ELSE /\ Len(ret.val) = 1
                    /\ ret.val[1] = args.set[args.idx + 1]
                    /\ \E i \in 1..Len(args.set) : ret.val[1] = args.set[i]

C10_Witness ==
    /\ op = "chooseRandomSubset"
    /\ Len(args.set) > 2
    /\ \A i \in 1..Len(args.set) : ~args.flips[i]
    /\ args.idx > 0
    /\ args.set[args.idx + 1] # args.set[1]
    /\ ret.val = <<args.set[args.idx + 1]>>

\* C11: for every integer a and positive integer q, mod(a, q) is the one r
\* with 0 <= r < q and q dividing a - r; it is never negative and never q.
C11_TrueModulo ==
    op = "mod" =>
        LET Divides(r) ==
                \E k \in (-(MaxB + 1))..(MaxB + 1) : args.a - r = k * args.q
        IN  /\ ret.ok
            /\ ret.val >= 0
            /\ ret.val < args.q
            /\ Divides(ret.val)
            /\ \A r \in 0..(args.q - 1) : Divides(r) => r = ret.val
            /\ (args.a = -1 /\ args.q = 5) => ret.val = 4

C11_Witness ==
    /\ op = "mod"
    /\ args.a < -args.q
    /\ args.q > 1
    /\ ret.val = args.q - 1

----------------------------------------------------------------------------
(* Noise-bounded correctness, under Spec.                                  *)

\* <publicKey.elements[i].vector, secret.vector>, not reduced.
ElementDot(i) ==
    RefSum([j \in 1..secret.n |->
               publicKey.elements[i].vector[j] * secret.vector[j]], secret.n)

\* C12: with q an odd prime and every public-key scalar equal to
\* mod(dot product + noise term, q), the residue decrypt decodes is
\* mod(E + b * floor(q/2), q) for the sum E of the noise terms of the
\* picked elements, and the decrypted bit is b whenever |E| < floor(q/4).
C12_NoiseBounded ==
    (origin = "encrypt" /\ pc = "decrypted") =>
        /\ RefPrime(q) /\ q % 2 = 1
        /\ Len(picked) > 0
        /\ \A i \in 1..Len(publicKey.elements) :
             publicKey.elements[i].scalar = (ElementDot(i) + noise[i]) % q
        /\ Noisy = (NoiseSum + message * (q \div 2)) % q
        /\ Abs(NoiseSum) < q \div 4 => decrypted = message

C12_Witness ==
    /\ origin = "encrypt"
    /\ pc = "decrypted"
    /\ n < 5
    /\ NoiseSum < 0
    /\ NoiseSum = 1 - (q \div 4)
    /\ Len(picked) > 1
    /\ \E i \in 1..Len(publicKey.elements) : ElementDot(i) >= q
    /\ message = 0
    /\ decrypted = 0

----------------------------------------------------------------------------
(* Properties of SpecPage.                                                 *)

\* The n that Generate Key reads is the n that Generate q derived q from.
SameN == qFrom >= 1 /\ parseInt(nInput) = Num(qFrom)

\* C13: for every n >= 1 within the bound, Generate q finds a prime q with
\* n^2 <= q <= 2 n^2 and never reports that no prime was found; for n > 1,
\* Generate Key with the same n then makes keys and reports no parameter
\* error; for n = 1, q is 2 and Generate Key fails with "n must be greater
\* than 1".
C13_DerivedModulus ==
    /\ toast # ToastNoPrime
    /\ qFrom = 0 => q = NotFound
    /\ qFrom >= 1 =>
         /\ RefPrime(q)
         /\ qFrom * qFrom <= q
         /\ q <= 2 * qFrom * qFrom
    /\ qFrom = 1 => q = 2
    /\ (pc = "handleGenerateKey" /\ SameN /\ qFrom > 1) =>
         /\ toast = ToastKeysOk
         /\ err = NoError
         /\ KeysMade
         /\ n = qFrom
         /\ ValidParams
         /\ secret.n = n /\ publicKey.n = n /\ publicKey.q = q
    /\ (pc = "handleGenerateKey" /\ SameN /\ qFrom = 1) =>
         /\ toast = ToastKeyError
         /\ err = ErrDimension
         /\ ~KeysMade

C13_Witness ==
    /\ pc = "handleGenerateKey"
    /\ SameN
    /\ qFrom = MaxPageN
    /\ Len(nInput) = 1
    /\ toast = ToastKeysOk
    /\ KeysMade
    /\ q > qFrom * qFrom

====
